---- MODULE Spec2Model ----
(***************************************************************************)
(* Model of the Bayesian-network inference engine of Proyecto_3IA          *)
(* (src/Motor_de_inferencia.py, class RedBayesiana).                       *)
(*                                                                         *)
(* Probabilities are exact rationals [n, d] kept in lowest terms, so that  *)
(* sums and products are the ones of exact arithmetic.  A DataFrame is a   *)
(* record [columnas, filas]; a row is a tuple aligned with columnas.       *)
(* A Python dict is a TLA+ function whose DOMAIN is the set of keys.       *)
(***************************************************************************)
EXTENDS Integers, Sequences, FiniteSets, TLC

VARIABLES
    variables,      \* self.variables: set of variable names
    grafo,          \* self.grafo: [nodos, aristas] of the DiGraph
    cpts,           \* self.cpts: dict nombre_nodo -> CPT metadata
    orden,          \* the order in which this process iterates self.variables
    retorno,        \* what the last cargar_estructura / cargar_cpt call returned
    llamada,        \* arguments of the inferencia_por_enumeracion call in progress or last completed
    salida,         \* its outcome: result, trace sinks and the record of lookups
    previa          \* outcome of the preceding run of the same query on the same network

vars == <<variables, grafo, cpts, orden, retorno, llamada, salida, previa>>

red == <<variables, grafo, cpts>>

(***************************************************************************)
(* Exact rational arithmetic (the claims are stated in exact arithmetic).  *)
(***************************************************************************)
RECURSIVE MCD(_, _)
MCD(a, b) == IF b = 0 THEN a ELSE MCD(b, a % b)

Frac(n, d) == LET g == MCD(n, d) IN [n |-> n \div g, d |-> d \div g]

Cero == [n |-> 0, d |-> 1]
Uno == [n |-> 1, d |-> 1]

Mul(x, y) == Frac(x.n * y.n, x.d * y.d)
Suma(x, y) == Frac(x.n * y.d + y.n * x.d, x.d * y.d)
EsCero(x) == x.n = 0
Positivo(x) == x.n > 0
Menor_o_igual(x, y) == x.n * y.d <= y.n * x.d

\* f"{x:.6f}" / f"{x:.4f}": the value rounded to `digitos` decimals,
\* kept as the integer number of units of 10^-digitos.
RECURSIVE Pot10(_)
Pot10(k) == IF k = 0 THEN 1 ELSE 10 * Pot10(k - 1)

Formato(x, digitos) == (2 * x.n * Pot10(digitos) + x.d) \div (2 * x.d)

(***************************************************************************)
(* Sequence helpers.                                                       *)
(***************************************************************************)
Elementos(s) == {s[i] : i \in DOMAIN s}

Indice(s, x) == CHOOSE i \in DOMAIN s : s[i] = x

Permutaciones(S) ==
    {p \in [1..Cardinality(S) -> S] : \A x \in S : \E i \in DOMAIN p : p[i] = x}

(***************************************************************************)
(* The files the program reads (pd.read_csv).  A value column may hold a   *)
(* missing value, read by pandas as NaN.                                   *)
(***************************************************************************)
NaN == "nan"
Ninguno == "None"

Nombres == {"A", "B", "C"}
Valores == {"s", "n"}

ArchivosEstructura == {"estructura_red.csv", "estructura_AB.csv", "estructura_mal.csv"}

\* estructura_mal.csv has no column 'hijo'.
LeerEstructura(archivo) ==
    CASE archivo = "estructura_red.csv" ->
            [columnas |-> <<"padre", "hijo">>,
             filas |-> << <<"A", "B">>, <<"A", "C">>, <<"B", "C">> >>]
      [] archivo = "estructura_AB.csv" ->
            [columnas |-> <<"padre", "hijo">>, filas |-> << <<"A", "B">> >>]
      [] OTHER ->
            [columnas |-> <<"origen", "destino">>, filas |-> << <<"A", "B">> >>]

\* The (archivo, nombre_nodo) pairs cargar_cpt is called with: nodo_X*.csv is
\* loaded as node X, as the __main__ block derives the name from the file.
Cargas ==
    { <<"nodo_A.csv", "A">>, <<"nodo_A_cierto.csv", "A">>,
      <<"nodo_B.csv", "B">>, <<"nodo_B_parcial.csv", "B">>,
      <<"nodo_C.csv", "C">>, <<"nodo_C_sin_filas.csv", "C">>,
      <<"nodo_B_mal.csv", "B">>, <<"nodo_C_una.csv", "C">>, <<"nodo_A_vacio.csv", "A">> }

\* pd.read_csv: [error, columnas, filas]; an empty file raises EmptyDataError.
LeerCSV(archivo) ==
    CASE archivo = "nodo_A.csv" ->
            [error |-> FALSE, columnas |-> <<"A", "probabilidad">>,
             filas |-> << <<"s", Frac(1, 2)>>, <<"n", Frac(1, 2)>> >>]
      [] archivo = "nodo_A_cierto.csv" ->
            [error |-> FALSE, columnas |-> <<"A", "probabilidad">>,
             filas |-> << <<"s", Frac(1, 1)>>, <<"n", Frac(0, 1)>>, <<NaN, Frac(0, 1)>> >>]
      [] archivo = "nodo_B.csv" ->
            [error |-> FALSE, columnas |-> <<"A", "B", "probabilidad">>,
             filas |-> << <<"s", "s", Frac(1, 4)>>, <<"s", "n", Frac(3, 4)>>,
                          <<"n", "s", Frac(1, 2)>>, <<"n", "n", Frac(1, 2)>> >>]
      [] archivo = "nodo_B_parcial.csv" ->
            [error |-> FALSE, columnas |-> <<"A", "B", "probabilidad">>,
             filas |-> << <<"s", "n", Frac(1, 1)>>, <<"s", "s", Frac(0, 1)>> >>]
      [] archivo = "nodo_C.csv" ->
            [error |-> FALSE, columnas |-> <<"A", "B", "C", "probabilidad">>,
             filas |-> << <<"s", "s", "s", Frac(1, 2)>>, <<"s", "s", "n", Frac(1, 2)>>,
                          <<"s", "n", "s", Frac(1, 4)>>, <<"s", "n", "n", Frac(3, 4)>>,
                          <<"n", "s", "s", Frac(3, 4)>>, <<"n", "s", "n", Frac(1, 4)>>,
                          <<"n", "n", "s", Frac(0, 1)>>, <<"n", "n", "n", Frac(1, 1)>> >>]
      [] archivo = "nodo_C_sin_filas.csv" ->
            [error |-> FALSE, columnas |-> <<"B", "C", "probabilidad">>, filas |-> <<>>]
      [] archivo = "nodo_B_mal.csv" ->
            [error |-> FALSE, columnas |-> <<"A", "B", "prob">>,
             filas |-> << <<"s", "s", Frac(1, 1)>> >>]
      [] archivo = "nodo_C_una.csv" ->
            [error |-> FALSE, columnas |-> <<"probabilidad">>, filas |-> << <<Frac(1, 1)>> >>]
      [] OTHER ->
            [error |-> TRUE, columnas |-> <<>>, filas |-> <<>>]

(***************************************************************************)
(* RedBayesiana.__init__, cargar_estructura, cargar_cpt.                   *)
(***************************************************************************)
GrafoVacio == [nodos |-> {}, aristas |-> {}]

\* A Python dict with no keys.
DictVacio == [x \in {} |-> Ninguno]

\* cargar_estructura: the network after the call and the value returned.
cargar_estructura(vs, g, archivo_estructura) ==
    LET df == LeerEstructura(archivo_estructura)
        cols == Elementos(df.columnas)
    IN  IF "padre" \notin cols \/ "hijo" \notin cols
        THEN [variables |-> vs, grafo |-> g, retorno |-> "False"]
        ELSE LET ip == Indice(df.columnas, "padre")
                 ih == Indice(df.columnas, "hijo")
                 nuevos == UNION {{df.filas[i][ip], df.filas[i][ih]} : i \in DOMAIN df.filas}
                 arcos == {<<df.filas[i][ip], df.filas[i][ih]>> : i \in DOMAIN df.filas}
             IN  [variables |-> vs \cup nuevos,
                  grafo |-> [nodos |-> g.nodos \cup nuevos, aristas |-> g.aristas \cup arcos],
                  retorno |-> "True"]

SubSec(s, a, b) == IF a > b THEN <<>> ELSE SubSeq(s, a, b)

\* cargar_cpt that registers the table before it validates the header.
cargar_cpt_sin_validar(cp, archivo_cpt, nombre_nodo) ==
    LET df == LeerCSV(archivo_cpt)
        columnas == df.columnas
        info == [data |-> [columnas |-> columnas, filas |-> df.filas],
                 padres |-> SubSec(columnas, 1, Len(columnas) - 2),
                 columna_valor |-> IF Len(columnas) >= 2 THEN columnas[Len(columnas) - 1]
                                   ELSE Ninguno,
                 columna_probabilidad |-> "probabilidad",
                 archivo |-> archivo_cpt]
        registrada == [x \in (DOMAIN cp) \cup {nombre_nodo} |->
                          IF x = nombre_nodo THEN info ELSE cp[x]]
    IN  IF df.error THEN [cpts |-> cp, retorno |-> Ninguno]
        ELSE IF columnas[Len(columnas)] # "probabilidad" \/ Len(columnas) < 2
        THEN [cpts |-> registrada, retorno |-> Ninguno]
        ELSE [cpts |-> registrada, retorno |-> nombre_nodo]

\* cargar_cpt: the dict of CPTs after the call and the value returned.
\* Every exception of the try block (EmptyDataError of read_csv, ValueError
\* of the header check, IndexError of columnas_variables[-1]) is caught.
cargar_cpt(cp, archivo_cpt, nombre_nodo) ==
    LET df == LeerCSV(archivo_cpt)
        columnas == df.columnas
        columnas_variables == SubSec(columnas, 1, Len(columnas) - 1)
    IN  IF df.error THEN [cpts |-> cp, retorno |-> Ninguno]
        ELSE IF columnas[Len(columnas)] # "probabilidad" THEN [cpts |-> cp, retorno |-> Ninguno]
        ELSE IF columnas_variables = <<>> THEN [cpts |-> cp, retorno |-> Ninguno]
        ELSE LET columna_valor == columnas_variables[Len(columnas_variables)]
                 padres == IF Len(columnas_variables) > 1
                           THEN SubSec(columnas_variables, 1, Len(columnas_variables) - 1)
                           ELSE <<>>
                 info == [data |-> [columnas |-> columnas, filas |-> df.filas],
                          padres |-> padres,
                          columna_valor |-> columna_valor,
                          columna_probabilidad |-> "probabilidad",
                          archivo |-> archivo_cpt]
             IN  [cpts |-> [x \in (DOMAIN cp) \cup {nombre_nodo} |->
                                IF x = nombre_nodo THEN info ELSE cp[x]],
                  retorno |-> nombre_nodo]

(***************************************************************************)
(* obtener_probabilidad: Conditional Lookup.                               *)
(***************************************************************************)
\* pandas elementwise ==: a missing value equals nothing.
Igual(a, b) == a # NaN /\ b # NaN /\ a = b

Columna(df, fila, nombre) == fila[Indice(df.columnas, nombre)]

\* Indices of the rows of df, in table order, that satisfy Test.
RECURSIVE FilasDesde(_, _, _, _, _)
FilasDesde(df, i, padres, evidencia_parcial, acc) ==
    IF i > Len(df.filas) THEN acc
    ELSE LET fila == df.filas[i]
             coincide == \A k \in DOMAIN padres :
                            padres[k] \in DOMAIN evidencia_parcial
                                => Igual(Columna(df, fila, padres[k]), evidencia_parcial[padres[k]])
         IN  FilasDesde(df, i + 1, padres, evidencia_parcial,
                        IF coincide THEN Append(acc, i) ELSE acc)

RECURSIVE ConValor(_, _, _, _, _)
ConValor(df, indices, k, columna_valor, valor) ==
    IF k > Len(indices) THEN <<>>
    ELSE LET resto == ConValor(df, indices, k + 1, columna_valor, valor)
         IN  IF Igual(Columna(df, df.filas[indices[k]], columna_valor), valor)
             THEN <<indices[k]>> \o resto ELSE resto

TodasLasFilas(df) == [i \in 1..Len(df.filas) |-> i]

\* obtener_probabilidad that raises when no row passes the parent filter, as
\* the lookup of red_bayesiana.py does.
obtener_probabilidad_estricta(cp, variable, valor, evidencia_parcial) ==
    IF variable \notin DOMAIN cp THEN [exc |-> "ValueError", p |-> Cero]
    ELSE
    LET cpt_info == cp[variable]
        df == cpt_info.data
        filas_coincidentes == FilasDesde(df, 1, cpt_info.padres, evidencia_parcial, <<>>)
        fila_valor == ConValor(df, filas_coincidentes, 1, cpt_info.columna_valor, valor)
    IN  IF Len(filas_coincidentes) = 0 THEN [exc |-> "ValueError", p |-> Cero]
        ELSE IF Len(fila_valor) = 0 THEN [exc |-> "", p |-> Cero]
        ELSE [exc |-> "", p |-> Columna(df, df.filas[fila_valor[1]], "probabilidad")]

\* Returns [exc, p]: exc = "ValueError" when the variable has no CPT.
obtener_probabilidad(cp, variable, valor, evidencia_parcial) ==
    IF variable \notin DOMAIN cp THEN [exc |-> "ValueError", p |-> Cero]
    ELSE
    LET cpt_info == cp[variable]
        df == cpt_info.data
    IN  IF cpt_info.padres = <<>>
        THEN LET fila == ConValor(df, TodasLasFilas(df), 1, cpt_info.columna_valor, valor)
             IN  IF Len(fila) = 0 THEN [exc |-> "", p |-> Cero]
                 ELSE [exc |-> "", p |-> Columna(df, df.filas[fila[1]], "probabilidad")]
        ELSE LET filas_coincidentes == FilasDesde(df, 1, cpt_info.padres, evidencia_parcial, <<>>)
             IN  IF Len(filas_coincidentes) = 0 THEN [exc |-> "", p |-> Cero]
                 ELSE LET fila_valor == ConValor(df, filas_coincidentes, 1,
                                                 cpt_info.columna_valor, valor)
                      IN  IF Len(fila_valor) = 0 THEN [exc |-> "", p |-> Cero]
                          ELSE [exc |-> "",
                                p |-> Columna(df, df.filas[fila_valor[1]], "probabilidad")]

(***************************************************************************)
(* inferencia_por_enumeracion and its nested functions.                    *)
(***************************************************************************)
\* list(df[columna_valor].unique()) without the missing values: the distinct
\* values of the CPT's own value column in order of first occurrence.
RECURSIVE UnicosDesde(_, _, _, _)
UnicosDesde(df, columna_valor, i, acc) ==
    IF i > Len(df.filas) THEN acc
    ELSE LET v == Columna(df, df.filas[i], columna_valor)
         IN  UnicosDesde(df, columna_valor, i + 1,
                         IF v = NaN \/ v \in Elementos(acc) THEN acc ELSE Append(acc, v))

ValoresDe(cp, variable) ==
    UnicosDesde(cp[variable].data, cp[variable].columna_valor, 1, <<>>)

\* dict.copy() followed by d[k] = v.
Asignar(d, k, v) == [x \in (DOMAIN d) \cup {k} |-> IF x = k THEN v ELSE d[x]]

\* The sub-dict of d on the keys of `claves`.
Restringir(d, claves) == [x \in (DOMAIN d) \cap claves |-> d[x]]

\* log_traza(mensaje): one message to each active sink.
Activo(archivo_traza) == archivo_traza # Ninguno /\ archivo_traza # ""

\* log_traza with `elif archivo_traza` in place of the second `if`.
log_traza_excluyente(s, mensaje) ==
    [s EXCEPT !.consola = IF s.mostrar_traza THEN Append(@, mensaje) ELSE @,
              !.fichero = IF ~s.mostrar_traza /\ Activo(s.archivo_traza)
                          THEN Append(@, mensaje) ELSE @]

log_traza(s, mensaje) ==
    [s EXCEPT !.consola = IF s.mostrar_traza THEN Append(@, mensaje) ELSE @,
              !.fichero = IF Activo(s.archivo_traza) THEN Append(@, mensaje) ELSE @]

RECURSIVE log_trazas(_, _)
log_trazas(s, mensajes) ==
    IF mensajes = <<>> THEN s
    ELSE log_trazas(log_traza(s, Head(mensajes)), Tail(mensajes))

Msj(texto, datos) == [m |-> texto, d |-> datos]

\* evidencia_padres: the assigned values of the variable's declared parents.
EvidenciaPadres(cp, variable, asignacion_completa) ==
    IF variable \in DOMAIN cp
    THEN Restringir(asignacion_completa, Elementos(cp[variable].padres))
    ELSE DictVacio

\* One call of obtener_probabilidad as the lookup record keeps it.
Consulta(cp, variable, asignacion_completa, r) ==
    [variable |-> variable, valor |-> asignacion_completa[variable],
     evidencia_parcial |-> EvidenciaPadres(cp, variable, asignacion_completa),
     exc |-> r.exc, p |-> r.p]

RECURSIVE ConjuntaDesde(_, _, _, _, _, _, _)

\* MultiplicarFactor without the early return on a zero factor.
MultiplicarSinPoda(cp, todas_variables, asignacion_completa, i, probabilidad, explicacion, consultadas, r) ==
    IF r.exc # ""
    THEN [exc |-> r.exc, prob |-> Cero, explicacion |-> <<>>,
          consultadas |-> Append(consultadas,
                                 Consulta(cp, todas_variables[i], asignacion_completa, r))]
    ELSE ConjuntaDesde(cp, todas_variables, asignacion_completa, i + 1,
                       Mul(probabilidad, r.p), explicacion,
                       Append(consultadas,
                              Consulta(cp, todas_variables[i], asignacion_completa, r)))

\* The body of the loop of calcular_probabilidad_conjunta for the i-th
\* variable, once obtener_probabilidad has given r (lines 160-170).
MultiplicarFactor(cp, todas_variables, asignacion_completa, i, probabilidad, explicacion, consultadas, r) ==
    LET variable == todas_variables[i]
        valor == asignacion_completa[variable]
        vistas == Append(consultadas, Consulta(cp, variable, asignacion_completa, r))
    IN  IF r.exc # ""
        THEN [exc |-> r.exc, prob |-> Cero, explicacion |-> <<>>, consultadas |-> vistas]
        ELSE IF EsCero(r.p)
        THEN [exc |-> "", prob |-> Cero, explicacion |-> <<>>, consultadas |-> vistas]
        ELSE ConjuntaDesde(cp, todas_variables, asignacion_completa, i + 1,
                           Mul(probabilidad, r.p),
                           Append(explicacion,
                                  [variable |-> variable, valor |-> valor,
                                   dado |-> IF cp[variable].padres # <<>>
                                            THEN EvidenciaPadres(cp, variable, asignacion_completa)
                                            ELSE DictVacio,
                                   p |-> Formato(r.p, 4)]),
                           vistas)

\* calcular_probabilidad_conjunta, from the i-th variable of todas_variables on.
\* Returns [exc, prob, explicacion, consultadas]; consultadas records, in
\* order, every call of obtener_probabilidad: its arguments and what it gave.
ConjuntaDesde(cp, todas_variables, asignacion_completa, i, probabilidad, explicacion, consultadas) ==
    IF i > Len(todas_variables)
    THEN [exc |-> "", prob |-> probabilidad, explicacion |-> explicacion,
          consultadas |-> consultadas]
    ELSE MultiplicarFactor(cp, todas_variables, asignacion_completa, i, probabilidad,
                           explicacion, consultadas,
                           obtener_probabilidad(cp, todas_variables[i],
                               asignacion_completa[todas_variables[i]],
                               EvidenciaPadres(cp, todas_variables[i], asignacion_completa)))

\* calcular_probabilidad_conjunta that leaves the first variable out of the product.
calcular_sin_primera(cp, todas_variables, asignacion_completa) ==
    ConjuntaDesde(cp, todas_variables, asignacion_completa, 2, Uno, <<>>, <<>>)

calcular_probabilidad_conjunta(cp, todas_variables, asignacion_completa) ==
    ConjuntaDesde(cp, todas_variables, asignacion_completa, 1, Uno, <<>>, <<>>)

\* enumerar_combinaciones: [exc, combinaciones]; exc = "KeyError" when the
\* variable being enumerated has no CPT.
RECURSIVE enumerar_combinaciones(_, _, _)
RECURSIVE EnumerarValores(_, _, _, _, _, _)

enumerar_combinaciones(cp, vs, asignacion_actual) ==
    IF vs = <<>> THEN [exc |-> "", combinaciones |-> <<asignacion_actual>>]
    ELSE LET variable_actual == Head(vs)
         IN  IF variable_actual \notin DOMAIN cp
             THEN [exc |-> "KeyError", combinaciones |-> <<>>]
             ELSE EnumerarValores(cp, vs, asignacion_actual,
                                  ValoresDe(cp, variable_actual), 1, <<>>)

\* EnumerarValores that keeps the combinations of the value at hand in place
\* of extending the list with them.
EnumerarSinExtender(cp, vs, asignacion_actual, valores_variable, k, combinaciones) ==
    IF k > Len(valores_variable) THEN [exc |-> "", combinaciones |-> combinaciones]
    ELSE LET r == enumerar_combinaciones(cp, Tail(vs),
                      Asignar(asignacion_actual, Head(vs), valores_variable[k]))
         IN  IF r.exc # "" THEN r
             ELSE EnumerarValores(cp, vs, asignacion_actual, valores_variable, k + 1,
                                  r.combinaciones)

\* The loop `for valor in valores_variable` of enumerar_combinaciones.
EnumerarValores(cp, vs, asignacion_actual, valores_variable, k, combinaciones) ==
    IF k > Len(valores_variable) THEN [exc |-> "", combinaciones |-> combinaciones]
    ELSE LET nueva_asignacion == Asignar(asignacion_actual, Head(vs), valores_variable[k])
             r == enumerar_combinaciones(cp, Tail(vs), nueva_asignacion)
         IN  IF r.exc # "" THEN r
             ELSE EnumerarValores(cp, vs, asignacion_actual, valores_variable, k + 1,
                                  combinaciones \o r.combinaciones)

RECURSIVE SumarDesde(_, _, _, _, _, _, _, _)

\* Acumular with the sum updated only when the trace is echoed.
AcumularSoloConTraza(cp, todas_variables, valor_consulta, combinaciones, j, s, suma_probabilidad, combinaciones_validas, r) ==
    IF r.exc # ""
    THEN [exc |-> r.exc, s |-> s, suma |-> suma_probabilidad,
          validas |-> combinaciones_validas]
    ELSE IF Positivo(r.prob) /\ s.mostrar_traza
    THEN SumarDesde(cp, todas_variables, valor_consulta, combinaciones, j + 1, s,
                    Suma(suma_probabilidad, r.prob), combinaciones_validas + 1)
    ELSE SumarDesde(cp, todas_variables, valor_consulta, combinaciones, j + 1, s,
                    suma_probabilidad, combinaciones_validas)

\* The body of the loop over the combinations for the j-th one, once
\* calcular_probabilidad_conjunta has given r (lines 208-212).  s carries the
\* trace sinks and the record of evaluations.
Acumular(cp, todas_variables, valor_consulta, combinaciones, j, s, suma_probabilidad, combinaciones_validas, r) ==
    LET combinacion == combinaciones[j]
        s1 == [s EXCEPT !.evaluaciones =
                   Append(@, [valor_consulta |-> valor_consulta, combinacion |-> combinacion,
                              consultadas |-> r.consultadas, prob |-> r.prob,
                              exc |-> r.exc])]
    IN  IF r.exc # ""
        THEN [exc |-> r.exc, s |-> s1, suma |-> suma_probabilidad,
              validas |-> combinaciones_validas]
        ELSE IF Positivo(r.prob)
        THEN SumarDesde(cp, todas_variables, valor_consulta, combinaciones, j + 1,
                        log_trazas(s1,
                            << Msj("Combinacion", <<combinaciones_validas + 1, combinacion>>),
                               Msj("Producto", <<r.explicacion, Formato(r.prob, 6)>>) >>),
                        Suma(suma_probabilidad, r.prob), combinaciones_validas + 1)
        ELSE SumarDesde(cp, todas_variables, valor_consulta, combinaciones, j + 1, s1,
                        suma_probabilidad, combinaciones_validas)

\* The loop `for combinacion in enumerar_combinaciones(...)` from the j-th
\* combination on.
SumarDesde(cp, todas_variables, valor_consulta, combinaciones, j, s, suma_probabilidad, combinaciones_validas) ==
    IF j > Len(combinaciones)
    THEN [exc |-> "", s |-> s, suma |-> suma_probabilidad, validas |-> combinaciones_validas]
    ELSE Acumular(cp, todas_variables, valor_consulta, combinaciones, j, s,
                  suma_probabilidad, combinaciones_validas,
                  calcular_probabilidad_conjunta(cp, todas_variables, combinaciones[j]))

RECURSIVE PorValorDesde(_, _, _, _, _, _, _, _, _)

\* The end of the body of the loop over the query values, once the loop over
\* the combinations has given r (lines 214-216).
CerrarValor(cp, todas_variables, variables_ocultas, consulta, evidencia, valores_consulta, k, resultados, r) ==
    IF r.exc # "" THEN [exc |-> r.exc, s |-> r.s, resultados |-> resultados]
    ELSE PorValorDesde(cp, todas_variables, variables_ocultas, consulta, evidencia,
             valores_consulta, k + 1,
             log_trazas(r.s,
                 << Msj("Suma para", <<consulta, valores_consulta[k], Formato(r.suma, 6)>>),
                    Msj("Combinaciones validas", <<r.validas>>) >>),
             Append(resultados, <<valores_consulta[k], r.suma>>))

\* The body of the loop over the query values, once enumerar_combinaciones
\* has given e (lines 202-212).
SumarCombinaciones(cp, todas_variables, variables_ocultas, consulta, evidencia, valores_consulta, k, s, resultados, e) ==
    IF e.exc # "" THEN [exc |-> e.exc, s |-> s, resultados |-> resultados]
    ELSE CerrarValor(cp, todas_variables, variables_ocultas, consulta, evidencia,
                     valores_consulta, k, resultados,
                     SumarDesde(cp, todas_variables, valores_consulta[k], e.combinaciones, 1,
                                s, Cero, 0))

\* The loop `for valor_consulta in valores_consulta` from the k-th value on.
\* resultados is the dict of sums, kept as the sequence of its items.
PorValorDesde(cp, todas_variables, variables_ocultas, consulta, evidencia, valores_consulta, k, s, resultados) ==
    IF k > Len(valores_consulta) THEN [exc |-> "", s |-> s, resultados |-> resultados]
    ELSE SumarCombinaciones(cp, todas_variables, variables_ocultas, consulta, evidencia,
             valores_consulta, k,
             log_traza(s, Msj("Calculo para", <<consulta, valores_consulta[k]>>)),
             resultados,
             enumerar_combinaciones(cp, variables_ocultas,
                                    Asignar(evidencia, consulta, valores_consulta[k])))

\* sum(resultados.values())
RECURSIVE SumaValores(_, _)
SumaValores(resultados, k) ==
    IF k > Len(resultados) THEN Cero
    ELSE Suma(resultados[k][2], SumaValores(resultados, k + 1))

\* The loop `for valor, prob in resultados.items()`.
RECURSIVE NormalizarDesde(_, _, _, _, _, _)
NormalizarDesde(resultados, alpha, consulta, k, s, resultados_normalizados) ==
    IF k > Len(resultados) THEN [s |-> s, resultados_normalizados |-> resultados_normalizados]
    ELSE LET valor == resultados[k][1]
             prob == resultados[k][2]
             prob_normalizada == Mul(prob, alpha)
         IN  NormalizarDesde(resultados, alpha, consulta, k + 1,
                 log_traza(s, Msj("P(consulta=valor|evidencia)",
                                  <<consulta, valor, Formato(prob, 6), Formato(alpha, 6),
                                    Formato(prob_normalizada, 6)>>)),
                 Append(resultados_normalizados, <<valor, prob_normalizada>>))

Ocultas(todas_variables, consulta, evidencia) ==
    LET RECURSIVE De(_)
        De(i) == IF i > Len(todas_variables) THEN <<>>
                 ELSE IF todas_variables[i] # consulta /\ todas_variables[i] \notin DOMAIN evidencia
                      THEN <<todas_variables[i]>> \o De(i + 1)
                      ELSE De(i + 1)
    IN  De(1)

\* The outcome of one call: what is returned or raised, the unnormalized sums,
\* the normalization constant when it was computed, and both trace sinks.
Salida(tipo, exc, distribucion, resultados, dividido, alpha, s) ==
    [tipo |-> tipo, exc |-> exc, distribucion |-> distribucion, resultados |-> resultados,
     dividido |-> dividido, alpha |-> alpha,
     consola |-> s.consola, fichero |-> s.fichero, evaluaciones |-> s.evaluaciones]

\* Normalizar with the multiplication by alpha left out.
NormalizarSinEscala(resultados, consulta, evidencia, s) ==
    LET suma_total == SumaValores(resultados, 1)
    IN  IF EsCero(suma_total)
        THEN Salida("None", "", <<>>, resultados, FALSE, Cero, s)
        ELSE Salida("distribucion", "", resultados, resultados, TRUE,
                    Frac(suma_total.d, suma_total.n), s)

\* Normalizar with the test `suma_total == 0` left out: 1.0 / 0 raises.
NormalizarSinGuarda(resultados, consulta, evidencia, s) ==
    LET suma_total == SumaValores(resultados, 1)
    IN  IF EsCero(suma_total)
        THEN Salida("error", "ZeroDivisionError", <<>>, resultados, TRUE, Cero, s)
        ELSE LET alpha == Frac(suma_total.d, suma_total.n)
                 n == NormalizarDesde(resultados, alpha, consulta, 1, s, <<>>)
             IN  Salida("distribucion", "", n.resultados_normalizados, resultados, TRUE,
                        alpha, n.s)

\* The normalization step (lines 218-239).
Normalizar(resultados, consulta, evidencia, s) ==
    LET s1 == log_traza(s, Msj("5Normalizacion", <<>>))
        suma_total == SumaValores(resultados, 1)
        s2 == log_traza(s1, Msj("Suma total", <<Formato(suma_total, 6)>>))
    IN  IF EsCero(suma_total)
        THEN Salida("None", "", <<>>, resultados, FALSE, Cero,
                    log_traza(s2, Msj("ERROR: Suma total es 0", <<>>)))
        ELSE LET alpha == Frac(suma_total.d, suma_total.n)
                 s3 == log_traza(s2, Msj("Factor de normalizacion alpha",
                                         <<Formato(suma_total, 6), Formato(alpha, 6)>>))
                 n == NormalizarDesde(resultados, alpha, consulta, 1, s3, <<>>)
             IN  Salida("distribucion", "", n.resultados_normalizados, resultados, TRUE, alpha,
                        log_trazas(n.s,
                            << Msj("Resultado final", <<>>),
                               Msj("P(consulta | evidencia)",
                                   <<consulta, evidencia, n.resultados_normalizados>>) >>))

\* The end of the call, once the loop over the query values has given r:
\* the exception it raised, or the normalization.
Concluir(consulta, evidencia, r) ==
    IF r.exc # "" THEN Salida("error", r.exc, <<>>, r.resultados, FALSE, Cero, r.s)
    ELSE Normalizar(r.resultados, consulta, evidencia, r.s)

inferencia_por_enumeracion(todas_variables, cp, consulta, evidencia, mostrar_traza, archivo_traza) ==
    LET s0 == [mostrar_traza |-> mostrar_traza, archivo_traza |-> archivo_traza,
               consola |-> <<>>,
               fichero |-> IF Activo(archivo_traza)
                           THEN << Msj("Traza de inferencia por enumeracion", <<>>),
                                   Msj("Consulta: P", <<consulta, evidencia>>) >>
                           ELSE <<>>,
               evaluaciones |-> <<>>]
        variables_ocultas == Ocultas(todas_variables, consulta, evidencia)
        s1 == log_trazas(s0,
                  << Msj("1. Variables de la red", <<todas_variables>>),
                     Msj("2. Variables ocultas (Y)", <<variables_ocultas>>),
                     Msj("Consulta (X)", <<consulta>>),
                     Msj("Evidencia (e)", <<evidencia>>) >>)
    IN  IF consulta \notin DOMAIN cp
        THEN Salida("error", "KeyError", <<>>, <<>>, FALSE, Cero, s1)
        ELSE Concluir(consulta, evidencia,
                 PorValorDesde(cp, todas_variables, variables_ocultas, consulta, evidencia,
                     ValoresDe(cp, consulta), 1,
                     log_trazas(s1,
                         << Msj("3. Valores posibles", <<consulta, ValoresDe(cp, consulta)>>),
                            Msj("4.Calculo de probabilidades conjuntas", <<>>),
                            Msj("Formula", <<consulta, evidencia, variables_ocultas>>) >>),
                     <<>>))

(***************************************************************************)
(* The state machine: a process builds the network with cargar_estructura  *)
(* and cargar_cpt and calls inferencia_por_enumeracion.                    *)
(***************************************************************************)
\* The most variables a caller observes in one query.
MaxEvidencia == 2

Evidencias ==
    UNION {[D -> Valores] : D \in {E \in SUBSET Nombres : Cardinality(E) <= MaxEvidencia}}

ArchivosTraza == {Ninguno, "traza.txt"}

SinLlamada ==
    [fase |-> "ninguna", consulta |-> Ninguno, evidencia |-> DictVacio,
     mostrar_traza |-> FALSE, archivo_traza |-> Ninguno]

SinSalida ==
    [tipo |-> "", exc |-> "", distribucion |-> <<>>, resultados |-> <<>>,
     dividido |-> FALSE, alpha |-> Cero, consola |-> <<>>, fichero |-> <<>>,
     evaluaciones |-> <<>>]

SinPrevia == [hay |-> FALSE, salida |-> SinSalida]

Init ==
    /\ variables = {}
    /\ grafo = GrafoVacio
    /\ cpts = DictVacio
    /\ orden = <<>>
    /\ retorno = ""
    /\ llamada = SinLlamada
    /\ salida = SinSalida
    /\ previa = SinPrevia

\* list(self.variables) iterates the set in an order fixed by the process's
\* string hashes: any order of the new set can result when the set changes.
CargarEstructura(archivo) ==
    /\ llamada.fase = "ninguna"
    /\ LET r == cargar_estructura(variables, grafo, archivo)
       IN  /\ variables' = r.variables
           /\ grafo' = r.grafo
           /\ retorno' = r.retorno
           /\ IF r.variables = variables THEN orden' = orden
              ELSE orden' \in Permutaciones(r.variables)
    /\ UNCHANGED <<cpts, llamada, salida, previa>>

CargarCPT(archivo, nombre_nodo) ==
    /\ llamada.fase = "ninguna"
    /\ LET r == cargar_cpt(cpts, archivo, nombre_nodo)
       IN  /\ cpts' = r.cpts
           /\ retorno' = r.retorno
    /\ UNCHANGED <<variables, grafo, orden, llamada, salida, previa>>

\* The caller binds the arguments of a query.
Llamar(consulta, evidencia, mostrar_traza, archivo_traza) ==
    /\ llamada.fase = "ninguna"
    /\ llamada' = [fase |-> "en_curso", consulta |-> consulta, evidencia |-> evidencia,
                   mostrar_traza |-> mostrar_traza, archivo_traza |-> archivo_traza]
    /\ retorno' = ""
    /\ UNCHANGED <<variables, grafo, cpts, orden, salida, previa>>

\* InferenciaPorEnumeracion with the base assignment built on the caller's
\* evidence mapping itself (no copy): the mapping is left holding the query
\* variable at its last value.
InferenciaSinCopia ==
    /\ llamada.fase = "en_curso"
    /\ salida' = inferencia_por_enumeracion(orden, cpts, llamada.consulta, llamada.evidencia,
                                            llamada.mostrar_traza, llamada.archivo_traza)
    /\ llamada' = [llamada EXCEPT
                      !.fase = "terminada",
                      !.evidencia =
                          IF llamada.consulta \in DOMAIN cpts
                             /\ ValoresDe(cpts, llamada.consulta) # <<>>
                          THEN Asignar(@, llamada.consulta,
                                       ValoresDe(cpts, llamada.consulta)
                                           [Len(ValoresDe(cpts, llamada.consulta))])
                          ELSE @]
    /\ UNCHANGED <<variables, grafo, cpts, orden, retorno, previa>>

\* The body of inferencia_por_enumeracion, up to its return or exception.
InferenciaPorEnumeracion ==
    /\ llamada.fase = "en_curso"
    /\ salida' = inferencia_por_enumeracion(orden, cpts, llamada.consulta, llamada.evidencia,
                                            llamada.mostrar_traza, llamada.archivo_traza)
    /\ llamada' = [llamada EXCEPT !.fase = "terminada"]
    /\ UNCHANGED <<variables, grafo, cpts, orden, retorno, previa>>

\* The caller has consumed the outcome.
Retornar ==
    /\ llamada.fase = "terminada"
    /\ llamada' = SinLlamada
    /\ salida' = SinSalida
    /\ previa' = SinPrevia
    /\ UNCHANGED <<variables, grafo, cpts, orden, retorno>>

\* The program is run again on the same sources with the same query (a new
\* process: the network is rebuilt to the same content, the string hashes
\* and so the iteration order of self.variables are drawn afresh).  The
\* outcome of the run before is kept for comparison.
Reejecutar ==
    /\ llamada.fase = "terminada"
    /\ ~previa.hay
    /\ llamada.mostrar_traza /\ Activo(llamada.archivo_traza)
    /\ orden' \in Permutaciones(variables)
    /\ previa' = [hay |-> TRUE, salida |-> salida]
    /\ llamada' = [llamada EXCEPT !.fase = "en_curso"]
    /\ salida' = SinSalida
    /\ UNCHANGED <<variables, grafo, cpts, retorno>>

Next ==
    \/ \E a \in ArchivosEstructura : CargarEstructura(a)
    \/ \E c \in Cargas : CargarCPT(c[1], c[2])
    \/ \E x \in Nombres, e \in Evidencias, m \in BOOLEAN, f \in ArchivosTraza : Llamar(x, e, m, f)
    \/ InferenciaPorEnumeracion
    \/ Retornar

Spec == Init /\ [][Next]_vars

\* The same program, run again by its user on the same sources.
NextProcesos == Next \/ Reejecutar

SpecProcesos == Init /\ [][NextProcesos]_vars

(***************************************************************************)
(* Properties.                                                             *)
(***************************************************************************)
Terminada == llamada.fase = "terminada"

\* Every probability of every registered CPT lies in [0,1].
ProbabilidadesValidas ==
    \A x \in DOMAIN cpts : \A i \in DOMAIN cpts[x].data.filas :
        LET pr == Columna(cpts[x].data, cpts[x].data.filas[i], "probabilidad")
        IN  Menor_o_igual(Cero, pr) /\ Menor_o_igual(pr, Uno)

\* C1: whenever inferencia_por_enumeracion returns a distribution on a
\* network whose CPT probabilities lie in [0,1], every returned value lies in
\* [0,1] and the returned values sum to exactly 1.
C1_DistribucionNormalizada ==
    (Terminada /\ salida.tipo = "distribucion" /\ ProbabilidadesValidas) =>
        /\ \A k \in DOMAIN salida.distribucion :
              /\ Menor_o_igual(Cero, salida.distribucion[k][2])
              /\ Menor_o_igual(salida.distribucion[k][2], Uno)
        /\ SumaValores(salida.distribucion, 1) = Uno

\* A distribution over two query values was returned after summing over a
\* hidden variable.
C1_Testigo ==
    /\ Terminada /\ salida.tipo = "distribucion"
    /\ Len(salida.distribucion) = 2
    /\ Len(salida.evaluaciones) >= 4
    /\ \A k \in DOMAIN salida.distribucion : Positivo(salida.distribucion[k][2])

\* The declarative reading of the enumeration: the hidden variables, their
\* domains, and the chain-rule product of one complete assignment.
OcultasDe(consulta, evidencia) == variables \ ({consulta} \cup DOMAIN evidencia)

Dominio(x) == Elementos(ValoresDe(cpts, x))

Completaciones(consulta, evidencia, v) ==
    LET H == OcultasDe(consulta, evidencia)
        base == Asignar(evidencia, consulta, v)
    IN  { [x \in H \cup DOMAIN base |-> IF x \in H THEN f[x] ELSE base[x]] :
            f \in {g \in [H -> Valores \cup {NaN}] : \A h \in H : g[h] \in Dominio(h)} }

Factor(x, asignacion) ==
    obtener_probabilidad(cpts, x, asignacion[x],
                         Restringir(asignacion, Elementos(cpts[x].padres))).p

RECURSIVE Producto(_, _)
Producto(X, asignacion) ==
    IF X = {} THEN Uno
    ELSE LET x == CHOOSE y \in X : TRUE
         IN  Mul(Factor(x, asignacion), Producto(X \ {x}, asignacion))

RECURSIVE SumaConjuntas(_)
SumaConjuntas(asignaciones) ==
    IF asignaciones = {} THEN Cero
    ELSE LET a == CHOOSE b \in asignaciones : TRUE
         IN  Suma(Producto(variables, a), SumaConjuntas(asignaciones \ {a}))

SumaDeclarada(v) ==
    SumaConjuntas(Completaciones(llamada.consulta, llamada.evidencia, v))

RECURSIVE TotalDeclarado(_, _)
TotalDeclarado(valores, k) ==
    IF k > Len(valores) THEN Cero
    ELSE Suma(SumaDeclarada(valores[k]), TotalDeclarado(valores, k + 1))

Cociente(x, y) == Frac(x.n * y.d, x.d * y.n)

\* C2: on a network where every variable has a CPT, the unnormalized sum
\* accumulated for each query value v is the sum, over every completion of
\* the hidden variables extending evidence + {query: v}, of the product over
\* all network variables of the looked-up probability of the variable's value
\* given its declared parents' values; the returned posterior of v is that sum
\* divided by the total of the sums over all query values.
C2_SumaPorEnumeracion ==
    (Terminada /\ salida.tipo # "error" /\ variables \subseteq DOMAIN cpts) =>
        LET valores == ValoresDe(cpts, llamada.consulta)
        IN  /\ Len(salida.resultados) = Len(valores)
            /\ \A k \in DOMAIN valores :
                  /\ salida.resultados[k] = <<valores[k], SumaDeclarada(valores[k])>>
                  /\ salida.tipo = "distribucion" =>
                        salida.distribucion[k] =
                            <<valores[k], Cociente(SumaDeclarada(valores[k]),
                                                   TotalDeclarado(valores, 1))>>

\* A posterior was returned for a query with a hidden variable whose
\* completions have different joint probabilities.
C2_Testigo ==
    /\ Terminada /\ salida.tipo = "distribucion"
    /\ variables \subseteq DOMAIN cpts
    /\ OcultasDe(llamada.consulta, llamada.evidencia) # {}
    /\ Len(salida.resultados) = 2
    /\ salida.resultados[1][2] # salida.resultados[2][2]
    /\ Positivo(salida.resultados[1][2]) /\ Positivo(salida.resultados[2][2])

\* C3: whenever the per-value sums total exactly 0 the call returns None
\* without computing 1/total, and a returned distribution never gives every
\* query value probability 0.
C3_EvidenciaImposible ==
    Terminada =>
        /\ (salida.tipo # "error" /\ EsCero(SumaValores(salida.resultados, 1))) =>
              (salida.tipo = "None" /\ ~salida.dividido)
        /\ salida.tipo = "distribucion" =>
              \E k \in DOMAIN salida.distribucion : Positivo(salida.distribucion[k][2])
        /\ salida.exc # "ZeroDivisionError"

\* Every joint probability of a query with several combinations was 0 and
\* None was returned.
C3_Testigo ==
    /\ Terminada /\ salida.tipo = "None"
    /\ Len(salida.resultados) = 2
    /\ Len(salida.evaluaciones) >= 2
    /\ \A k \in DOMAIN salida.resultados : EsCero(salida.resultados[k][2])

\* Some row of the variable's table matches the supplied parent values and
\* carries the requested value.
HayFila(variable, valor, evidencia_parcial) ==
    LET df == cpts[variable].data
    IN  \E i \in DOMAIN df.filas :
            /\ \A pa \in Elementos(cpts[variable].padres) \cap DOMAIN evidencia_parcial :
                  Columna(df, df.filas[i], pa) = evidencia_parcial[pa]
            /\ Columna(df, df.filas[i], cpts[variable].columna_valor) = valor

LookupsHechos ==
    UNION { Elementos(salida.evaluaciones[j].consultadas) : j \in DOMAIN salida.evaluaciones }

C5_SinCPTSiempreError ==
    (Terminada /\ ~(variables \subseteq DOMAIN cpts)) => salida.tipo = "error"

\* The position, in the iteration order, of the first variable whose factor
\* for the assignment is 0; the number of variables when no factor is 0.
FactorCero(i, asignacion) ==
    /\ orden[i] \in DOMAIN cpts
    /\ EsCero(Factor(orden[i], asignacion))

LookupsEsperados(asignacion) ==
    LET Z == {i \in DOMAIN orden : FactorCero(i, asignacion)}
    IN  IF Z = {} THEN Len(orden) ELSE CHOOSE i \in Z : \A j \in Z : i <= j

Podada(ev) == ev.consultadas # <<>> /\ EsCero(ev.consultadas[Len(ev.consultadas)].p)

RECURSIVE SumaNoPodadas(_, _, _)
SumaNoPodadas(evaluaciones, v, j) ==
    IF j > Len(evaluaciones) THEN Cero
    ELSE LET ev == evaluaciones[j]
             resto == SumaNoPodadas(evaluaciones, v, j + 1)
         IN  IF ev.valor_consulta = v /\ ev.exc = "" /\ ~Podada(ev)
             THEN Suma(ev.prob, resto) ELSE resto

\* C6: in the evaluation of one complete assignment no lookup is made after a
\* lookup returned 0: the lookups are made for the variables in iteration
\* order, their number is the position of the first variable whose factor is
\* 0, or the number of variables when no factor is 0, and a pruned assignment
\* adds nothing to the per-value sum.
C6_PodaTemprana ==
    Terminada =>
        /\ \A j \in DOMAIN salida.evaluaciones :
              LET ev == salida.evaluaciones[j]
              IN  /\ \A i \in DOMAIN ev.consultadas :
                        /\ ev.consultadas[i].variable = orden[i]
                        /\ i < Len(ev.consultadas) => ~EsCero(ev.consultadas[i].p)
                  /\ ev.exc = "" =>
                        /\ Len(ev.consultadas) = LookupsEsperados(ev.combinacion)
                        /\ Podada(ev) => ev.prob = Cero
        /\ \A k \in DOMAIN salida.resultados :
              salida.resultados[k][2] =
                  SumaNoPodadas(salida.evaluaciones, salida.resultados[k][1], 1)

\* An assignment over three variables was abandoned after its first lookup,
\* and another one of the same query was evaluated in full.
C6_Testigo ==
    /\ Terminada /\ Len(orden) = 3
    /\ \E j \in DOMAIN salida.evaluaciones :
          /\ Len(salida.evaluaciones[j].consultadas) = 1
          /\ salida.evaluaciones[j].exc = ""
    /\ \E j \in DOMAIN salida.evaluaciones :
          /\ Len(salida.evaluaciones[j].consultadas) = 3
          /\ Positivo(salida.evaluaciones[j].prob)

Resultado(sal) == <<sal.tipo, sal.exc, sal.distribucion>>

\* C7: the outcome of a query (the distribution, None or the error) is the
\* same for every setting of mostrar_traza and archivo_traza: whatever the
\* setting of the call, its outcome is the one of the same call made with
\* both sinks off.  (The sinks are taken to accept every write.)
C7_TrazaNoAlteraResultado ==
    Terminada =>
        Resultado(salida) =
            Resultado(inferencia_por_enumeracion(orden, cpts, llamada.consulta,
                                                 llamada.evidencia, FALSE, Ninguno))

\* A distribution was returned by a query run with both sinks active.
C7_Testigo ==
    /\ Terminada /\ salida.tipo = "distribucion"
    /\ llamada.mostrar_traza /\ Activo(llamada.archivo_traza)
    /\ Len(salida.consola) > 10

AmbosSumideros == Terminada /\ llamada.mostrar_traza /\ Activo(llamada.archivo_traza)

\* C8 (as claimed): with both sinks active, the messages written to the
\* console and the lines written to the trace file are the same sequence.
C8_SumiderosIdenticos ==
    AmbosSumideros => salida.fichero = salida.consola

\* The two lines written when the trace file is opened.
Cabecera ==
    << Msj("Traza de inferencia por enumeracion", <<>>),
       Msj("Consulta: P", <<llamada.consulta, llamada.evidencia>>) >>

\* C8 (amended): with both sinks active, the trace file holds its two header
\* lines followed by exactly the sequence of messages written to the console.
C8_FicheroEsCabeceraMasConsola ==
    AmbosSumideros => salida.fichero = Cabecera \o salida.consola

\* A query with both sinks active logged combinations and ended.
C8_Testigo ==
    /\ AmbosSumideros
    /\ \E i \in DOMAIN salida.consola : salida.consola[i].m = "Combinacion"
    /\ Len(salida.fichero) > 10

\* C9 (as claimed): two runs on the same network, query and evidence give the
\* same sequence of trace events and the same result.
C9_RunsIdenticos ==
    (Terminada /\ previa.hay) =>
        /\ salida.consola = previa.salida.consola
        /\ salida.fichero = previa.salida.fichero
        /\ Resultado(salida) = Resultado(previa.salida)

\* The file is rejected by cargar_cpt: it cannot be read, its last column is
\* not named 'probabilidad', or it has fewer than two columns.
Malformada(archivo) ==
    LET df == LeerCSV(archivo)
    IN  \/ df.error
        \/ Len(df.columnas) < 2
        \/ df.columnas[Len(df.columnas)] # "probabilidad"

\* C10: a cargar_cpt call on a malformed table raises nothing, returns None
\* and leaves the CPTs, the variable set and the graph as they were; the
\* program goes on to later loads and queries.
C10_CargaMalformada ==
    [][\A c \in Cargas :
          (Malformada(c[1]) /\ CargarCPT(c[1], c[2])) =>
              /\ retorno' = Ninguno
              /\ cpts' = cpts /\ variables' = variables /\ grafo' = grafo
              /\ llamada'.fase = "ninguna"]_vars

\* A malformed table was rejected on a network that already holds a CPT.
C10_Testigo ==
    /\ retorno = Ninguno
    /\ llamada.fase = "ninguna"
    /\ DOMAIN cpts # {}
    /\ variables # {}

\* What enumerar_combinaciones gives for the query value v of the call.
EnumeracionDe(v) ==
    enumerar_combinaciones(cpts, Ocultas(orden, llamada.consulta, llamada.evidencia),
                           Asignar(llamada.evidencia, llamada.consulta, v))

\* The combinations the call evaluated for the query value v, in order.
RECURSIVE EvaluadasPara(_, _)
EvaluadasPara(v, j) ==
    IF j > Len(salida.evaluaciones) THEN <<>>
    ELSE IF salida.evaluaciones[j].valor_consulta = v
         THEN <<salida.evaluaciones[j].combinacion>> \o EvaluadasPara(v, j + 1)
         ELSE EvaluadasPara(v, j + 1)

RECURSIVE ProductoDominios(_)
ProductoDominios(H) ==
    IF H = {} THEN 1
    ELSE LET h == CHOOSE x \in H : TRUE
         IN  Cardinality(Dominio(h)) * ProductoDominios(H \ {h})

\* C11: when the query variable and every hidden variable have a CPT, then
\* for each query value v enumerar_combinaciones raises nothing and returns
\* every assignment of the hidden variables (the network's variables that are
\* neither the query variable nor evidence keys) to values of their own CPT's
\* value column, each exactly once and each extended with the base assignment
\* (the evidence with the query variable set to v); their number is the
\* product of the hidden variables' domain sizes; with no hidden variables
\* the base assignment alone is returned; and a call that raises nothing
\* evaluates exactly these combinations, in this order, for v.
C11_ProductoCartesiano ==
    (/\ Terminada
     /\ llamada.consulta \in DOMAIN cpts
     /\ OcultasDe(llamada.consulta, llamada.evidencia) \subseteq DOMAIN cpts) =>
        LET H == OcultasDe(llamada.consulta, llamada.evidencia)
            valores == ValoresDe(cpts, llamada.consulta)
        IN  \A k \in DOMAIN valores :
               LET r == EnumeracionDe(valores[k])
                   esperadas == Completaciones(llamada.consulta, llamada.evidencia, valores[k])
               IN  /\ r.exc = ""
                   /\ Elementos(r.combinaciones) = esperadas
                   /\ Len(r.combinaciones) = Cardinality(esperadas)
                   /\ Len(r.combinaciones) = ProductoDominios(H)
                   /\ H = {} => r.combinaciones =
                                  <<Asignar(llamada.evidencia, llamada.consulta, valores[k])>>
                   /\ salida.exc = "" => EvaluadasPara(valores[k], 1) = r.combinaciones

\* A query over two hidden variables with two values each returned a
\* distribution: four combinations were enumerated for each query value.
C11_Testigo ==
    /\ Terminada
    /\ salida.tipo = "distribucion"
    /\ Cardinality(OcultasDe(llamada.consulta, llamada.evidencia)) = 2
    /\ ProductoDominios(OcultasDe(llamada.consulta, llamada.evidencia)) = 4
    /\ Len(salida.evaluaciones) = 8

\* C12: a call of inferencia_por_enumeracion, whether it returns a
\* distribution, returns None or raises, leaves the variable set, the graph,
\* every registered CPT and the caller's evidence mapping as they were, and
\* its outcome is the one fixed by the network and the call's own arguments,
\* whatever loads and queries came before.
C12_ConsultaNoAlteraRed ==
    [][(llamada.fase = "en_curso" /\ llamada'.fase = "terminada") =>
          /\ variables' = variables
          /\ grafo' = grafo
          /\ cpts' = cpts
          /\ llamada'.evidencia = llamada.evidencia
          /\ llamada'.consulta = llamada.consulta
          /\ salida' = inferencia_por_enumeracion(orden, cpts, llamada.consulta,
                           llamada.evidencia, llamada.mostrar_traza,
                           llamada.archivo_traza)]_vars

\* A query with evidence has returned a distribution: its combinations
\* extended the evidence, and the caller's mapping is the one it passed.
C12_Testigo ==
    /\ Terminada
    /\ salida.tipo = "distribucion"
    /\ llamada.evidencia # DictVacio
    /\ llamada.consulta \notin DOMAIN llamada.evidencia
    /\ salida.evaluaciones # <<>>
    /\ salida.evaluaciones[1].combinacion # llamada.evidencia
    /\ DOMAIN llamada.evidencia \subseteq DOMAIN cpts

====
